---- MODULE Spec2Model ----
(***************************************************************************)
(* voice-slicer: the ordering-key allocator (src/src/utils.py), the        *)
(* segment merge (src/src/json_loader.py) and the two diff-based           *)
(* reconciliation passes (AudioSplitter.export_diff in src/src/splitter.py *)
(* and export_diff_v2 in src/split.py) with the handlers that drive them   *)
(* (split.py main, gui/app.py save_json and regenerate_audio).             *)
(*                                                                         *)
(* Conventions.  A Python dict is a sequence of entries in insertion       *)
(* order; a segment is a record [id, start, end, text, index, index_sub];  *)
(* an absent or None field is None.  Times are integers in units of        *)
(* 0.001 s, so the code's tolerance 0.001 is 1.  A text and a file name    *)
(* are sequences of one-character strings.  An absent neighbour key of     *)
(* the allocator is NoKey.                                                 *)
(***************************************************************************)
EXTENDS Integers, Sequences, FiniteSets, TLC

VARIABLES
    transcript,   \* transcript.json "segments": the canonical record
    overlay,      \* edit_segments.json "segments"; <<>> when absent or empty
    files,        \* artifacts in the output directory: name -> content
    last,         \* what the last handler did (inputs, file operations, result)
    passes,       \* number of reconciliation passes run so far
    saves,        \* number of overlay writes so far
    exhausted,    \* history: some allocator call of some pass found no room
    fault,        \* the (id, operation) that raises in the next pass, or NoFault
    a_in,         \* function harness: the arguments of the function applied
    a_out         \* function harness: its result, NoKey before the call

vars == <<transcript, overlay, files, last, passes, saves, exhausted, fault, a_in, a_out>>

----------------------------------------------------------------------------
\* Python values

None == -1
NoKey == <<>>

Min(a, b) == IF a < b THEN a ELSE b

RECURSIVE Pow10(_)
Pow10(d) == IF d = 0 THEN 1 ELSE 10 * Pow10(d - 1)

\* Python's tuple comparison on (index, index_sub) pairs
KeyLess(a, b) == a[1] < b[1] \/ (a[1] = b[1] /\ a[2] < b[2])

----------------------------------------------------------------------------
\* src/src/utils.py: determine_index

max_index_sub_of(index_sub_digits) == Pow10(index_sub_digits) - 1

\* an absent before read as (1, 0)
BeforeOrZero_mut(before) == IF before # NoKey THEN before ELSE <<1, 0>>

\* before if before else (0, 0)
BeforeOrZero(before) == IF before # NoKey THEN before ELSE <<0, 0>>

\* rule 1 with a present after = (M, m): a primary index value is free
Rule1_mut(N, M, m) == N + 1 <= M

Rule1(N, M, m) == N + 1 < M \/ (N + 1 = M /\ m # 0)

\* rule 2: x = n + (max_index_sub - n) // (l + 1), capped
Rule2Sub_mut(n, l, max_index_sub) ==
    Min(n + ((max_index_sub + 1 - n) \div (l + 1)), max_index_sub)

\* rule 2 multiplying where the code divides, and without the cap
Rule2Sub_over(n, l, max_index_sub) ==
    n + ((max_index_sub - n) * (l + 1))

Rule2Sub(n, l, max_index_sub) ==
    Min(n + ((max_index_sub - n) \div (l + 1)), max_index_sub)

\* rule 3 rounding up: the sub-key moves even when the gap is too small
Rule3Sub_mut(n, m, l, max_index_sub) ==
    Min(n + ((m - n + l) \div (l + 1)), max_index_sub)

\* rule 3: x = n + (m - n) // (l + 1), capped
Rule3Sub(n, m, l, max_index_sub) ==
    Min(n + ((m - n) \div (l + 1)), max_index_sub)

determine_index(before, after, l, index_sub_digits) ==
    LET max_index_sub == max_index_sub_of(index_sub_digits)
        N == BeforeOrZero(before)[1]
        n == BeforeOrZero(before)[2]
    IN  IF after = NoKey
        THEN <<N + 1, 0>>                    \* M = +inf: N + 1 < M
        ELSE LET M == after[1]
                 m == after[2]
             IN  IF Rule1(N, M, m) THEN <<N + 1, 0>>
                 ELSE IF N + 1 = M /\ m = 0
                      THEN <<N, Rule2Sub(n, l, max_index_sub)>>
                      ELSE <<N, Rule3Sub(n, m, l, max_index_sub)>>

----------------------------------------------------------------------------
\* src/src/utils.py: sanitize_filename, format_index_filename

InvalidChars == {"\\", "/", ":", "*", "?", "\"", "<", ">", "|"}

Untitled == <<"u", "n", "t", "i", "t", "l", "e", "d">>

DigitChars == <<"0", "1", "2", "3", "4", "5", "6", "7", "8", "9">>

\* str(n) of a non-negative integer, or of None
RECURSIVE Str(_)
Str(n) ==
    IF n = None THEN <<"N", "o", "n", "e">>
    ELSE IF n < 10 THEN <<DigitChars[n + 1]>>
    ELSE Str(n \div 10) \o <<DigitChars[(n % 10) + 1]>>

\* s.zfill(width)
RECURSIVE ZFill(_, _)
ZFill(s, width) == IF Len(s) >= width THEN s ELSE ZFill(<<"0">> \o s, width)

\* re.sub(r'_+', '_', s)
RECURSIVE CollapseUnderscores(_)
CollapseUnderscores(s) ==
    IF Len(s) < 2 THEN s
    ELSE IF s[1] = "_" /\ s[2] = "_" THEN CollapseUnderscores(Tail(s))
    ELSE <<s[1]>> \o CollapseUnderscores(Tail(s))

RECURSIVE LStrip(_)
LStrip(s) == IF s # <<>> /\ s[1] = "_" THEN LStrip(Tail(s)) ELSE s

RECURSIVE RStrip(_)
RStrip(s) ==
    IF s # <<>> /\ s[Len(s)] = "_" THEN RStrip(SubSeq(s, 1, Len(s) - 1)) ELSE s

sanitize_filename(text, max_length) ==
    LET removed   == SelectSeq(text, LAMBDA c : c \notin InvalidChars)
        replaced  == [i \in 1..Len(removed) |->
                         IF removed[i] = " " THEN "_" ELSE removed[i]]
        collapsed == CollapseUnderscores(replaced)
        stripped  == RStrip(LStrip(collapsed))
        limited   == IF max_length # None /\ Len(stripped) > max_length
                     THEN RStrip(SubSeq(stripped, 1, max_length))
                     ELSE stripped
    IN  IF limited = <<>> THEN Untitled ELSE limited

\* the index part of a name: "001", or "001-500" when index_sub is non-zero
IndexPart(index, index_sub, index_digits, index_sub_digits) ==
    IF index_sub # None /\ index_sub # 0
    THEN ZFill(Str(index), index_digits) \o <<"-">>
         \o ZFill(Str(index_sub), index_sub_digits)
    ELSE ZFill(Str(index), index_digits)

format_index_filename(index, index_sub, text, extension, index_digits, index_sub_digits, max_text_length) ==
    IndexPart(index, index_sub, index_digits, index_sub_digits)
    \o <<"_">> \o sanitize_filename(text, max_text_length) \o extension

----------------------------------------------------------------------------
\* Python dicts of segments, in insertion order

Ids(d) == {d[i].id : i \in 1..Len(d)}

HasId(d, id) == \E i \in 1..Len(d) : d[i].id = id

Get(d, id) == d[CHOOSE i \in 1..Len(d) : d[i].id = id]

\* seg.get("index_sub", 0) or 0
OrZero(x) == IF x = None THEN 0 ELSE x

KeyOf(seg) == <<seg.index, OrZero(seg.index_sub)>>

\* sorted(..., key=start): stable
RECURSIVE InsertByStart(_, _)
InsertByStart(s, x) ==
    IF s = <<>> THEN <<x>>
    ELSE IF s[Len(s)].start <= x.start THEN Append(s, x)
    ELSE Append(InsertByStart(SubSeq(s, 1, Len(s) - 1), x), s[Len(s)])

RECURSIVE SortByStart(_)
SortByStart(s) ==
    IF s = <<>> THEN <<>>
    ELSE InsertByStart(SortByStart(SubSeq(s, 1, Len(s) - 1)), s[Len(s)])

----------------------------------------------------------------------------
\* src/src/splitter.py: AudioSplitter.assign_indices

\* the confirmed list: keyed entries of existing_segments, sorted by start
Confirmed(existing_segments) ==
    SortByStart(SelectSeq(existing_segments, LAMBDA seg : seg.index # None))

\* before after the loop over confirmed: the last one that starts earlier
ConfirmedBefore(confirmed, start) ==
    LET earlier == {i \in 1..Len(confirmed) : confirmed[i].start < start}
    IN  IF earlier = {} THEN NoKey
        ELSE KeyOf(confirmed[CHOOSE i \in earlier : \A j \in earlier : j <= i])

\* after after the loop over confirmed: the first one that starts later
ConfirmedAfter(confirmed, start) ==
    LET later == {i \in 1..Len(confirmed) : confirmed[i].start > start}
    IN  IF later = {} THEN NoKey
        ELSE KeyOf(confirmed[CHOOSE i \in later : \A j \in later : i <= j])

\* the loop over result: an already processed keyed entry that starts earlier
\* raises before, one that starts later lowers after
RECURSIVE ResultBefore(_, _, _, _)
ResultBefore(result, i, start, before) ==
    IF i > Len(result) THEN before
    ELSE LET r == result[i]
         IN  IF r.index # None /\ r.start < start
                /\ (before = NoKey \/ KeyLess(before, KeyOf(r)))
             THEN ResultBefore(result, i + 1, start, KeyOf(r))
             ELSE ResultBefore(result, i + 1, start, before)

RECURSIVE ResultAfter(_, _, _, _)
ResultAfter(result, i, start, after) ==
    IF i > Len(result) THEN after
    ELSE LET r == result[i]
         IN  IF r.index # None /\ r.start > start
                /\ (after = NoKey \/ KeyLess(KeyOf(r), after))
             THEN ResultAfter(result, i + 1, start, KeyOf(r))
             ELSE ResultAfter(result, i + 1, start, after)

\* the neighbours handed to determine_index for an unkeyed entry
BeforeFor(confirmed, result, seg) ==
    ResultBefore(result, 1, seg.start, ConfirmedBefore(confirmed, seg.start))

AfterFor(confirmed, result, seg) ==
    ResultAfter(result, 1, seg.start, ConfirmedAfter(confirmed, seg.start))

\* one iteration of the loop over sorted_items
AssignOne(confirmed, result, seg, index_sub_digits) ==
    IF seg.index # None
    THEN Append(result, seg)
    ELSE LET new == determine_index(BeforeFor(confirmed, result, seg),
                                    AfterFor(confirmed, result, seg),
                                    1, index_sub_digits)
         IN  Append(result, [seg EXCEPT !.index = new[1],
                                        !.index_sub = IF new[2] # 0 THEN new[2]
                                                      ELSE None])

RECURSIVE AssignLoop(_, _, _, _, _)
AssignLoop(sorted_items, i, confirmed, result, index_sub_digits) ==
    IF i > Len(sorted_items) THEN result
    ELSE AssignLoop(sorted_items, i + 1, confirmed,
                    AssignOne(confirmed, result, sorted_items[i], index_sub_digits),
                    index_sub_digits)

\* existing_segments is <<>> for None (and "if existing_segments:" is false
\* for an empty dict as well)
assign_indices(segments, existing_segments, index_sub_digits) ==
    AssignLoop(SortByStart(segments), 1, Confirmed(existing_segments), <<>>,
               index_sub_digits)

\* The allocator is out of room: rule 2 with max_index_sub - n < l + 1, or
\* rule 3 with m - n < l + 1.
NoRoom(before, after, l, d) ==
    LET N == BeforeOrZero(before)[1]
        n == BeforeOrZero(before)[2]
    IN  /\ after # NoKey
        /\ ~Rule1(N, after[1], after[2])
        /\ IF N + 1 = after[1] /\ after[2] = 0
           THEN max_index_sub_of(d) - n < l + 1
           ELSE after[2] - n < l + 1

\* Some call of determine_index in assign_indices(segments, existing_segments)
\* found no room.  The i-th sorted item is decided against the first i - 1
\* entries of the result.
PassNoRoom(segments, existing_segments, d) ==
    LET sorted_items == SortByStart(segments)
        confirmed == Confirmed(existing_segments)
        result == assign_indices(segments, existing_segments, d)
    IN  \E i \in 1..Len(sorted_items) :
            /\ sorted_items[i].index = None
            /\ NoRoom(BeforeFor(confirmed, SubSeq(result, 1, i - 1), sorted_items[i]),
                      AfterFor(confirmed, SubSeq(result, 1, i - 1), sorted_items[i]),
                      1, d)

----------------------------------------------------------------------------
\* src/src/splitter.py: the output directory and the file operations

index_digits == 3
index_sub_digits == 3
max_filename_length == None
file_extension == <<".", "w", "a", "v">>

generate_filename(seg) ==
    format_index_filename(seg.index, seg.index_sub, seg.text, file_extension,
                          index_digits, index_sub_digits, max_filename_length)

Exists(fs, name) == name \in DOMAIN fs

Unlink(fs, name) == [n \in DOMAIN fs \ {name} |-> fs[n]]

WriteFile(fs, name, content) ==
    [n \in DOMAIN fs \cup {name} |-> IF n = name THEN content ELSE fs[n]]

\* Path.rename: the target is replaced when it exists
RenamePath(fs, old, new) ==
    IF old = new THEN fs ELSE Unlink(WriteFile(fs, new, fs[old]), old)

\* what export_segment writes: the source range, for the segment it was
\* called with
Content(seg) == [id |-> seg.id, start |-> seg.start, end |-> seg.end]

\* The running state of a pass: the directory, the four result lists and the
\* file operations issued so far, in order.
EmptyAcc(fs) ==
    [files |-> fs, ops |-> <<>>, exported |-> <<>>, renamed |-> <<>>,
     deleted |-> <<>>, skipped |-> 0, segments |-> <<>>, raised |-> FALSE]

\* no file operation is set to fail
NoFault == [id |-> None, op |-> "none"]

\* The call raises (OSError from unlink or rename, an encoder error from
\* export); nothing in the pass catches it, so nothing after it runs.
Raise(acc) == [acc EXCEPT !.raised = TRUE]

\* delete_file, its result decides whether the caller reports the name
\* unlink without the exists() test: a missing file raises
DeleteFile_mut(acc, id, name, step, report) ==
    IF acc.raised THEN acc
    ELSE IF ~Exists(acc.files, name) \/ fault = [id |-> id, op |-> "delete"]
    THEN Raise(acc)
    ELSE [acc EXCEPT
            !.files = Unlink(acc.files, name),
            !.ops = Append(acc.ops, [op |-> "delete", id |-> id, name |-> name,
                                     to |-> name, step |-> step, ok |-> TRUE]),
            !.deleted = IF report THEN Append(acc.deleted, name)
                        ELSE acc.deleted]

DeleteFile(acc, id, name, step, report) ==
    LET ok == Exists(acc.files, name)
    IN  IF acc.raised THEN acc
        ELSE IF ok /\ fault = [id |-> id, op |-> "delete"] THEN Raise(acc)
        ELSE
        [acc EXCEPT
            !.files = IF ok THEN Unlink(acc.files, name) ELSE acc.files,
            !.ops = Append(acc.ops, [op |-> "delete", id |-> id, name |-> name,
                                     to |-> name, step |-> step, ok |-> ok]),
            !.deleted = IF ok /\ report THEN Append(acc.deleted, name)
                        ELSE acc.deleted]

\* export_segment followed by exported_files.append
ExportSegment(acc, seg) ==
    LET name == generate_filename(seg)
    IN  IF acc.raised THEN acc
        ELSE IF fault = [id |-> seg.id, op |-> "export"] THEN Raise(acc)
        ELSE
        [acc EXCEPT
            !.files = WriteFile(acc.files, name, Content(seg)),
            !.ops = Append(acc.ops, [op |-> "export", id |-> seg.id, name |-> name,
                                     to |-> name, step |-> 3, ok |-> TRUE]),
            !.exported = Append(acc.exported, name)]

\* rename_file, and the export it falls back to when the old file is missing
RenameOrExport(acc, seg, old_filename, new_filename) ==
    IF acc.raised THEN acc
    ELSE IF /\ Exists(acc.files, old_filename)
            /\ fault = [id |-> seg.id, op |-> "rename"]
    THEN Raise(acc)
    ELSE IF Exists(acc.files, old_filename)
    THEN [acc EXCEPT
            !.files = RenamePath(acc.files, old_filename, new_filename),
            !.ops = Append(acc.ops, [op |-> "rename", id |-> seg.id,
                                     name |-> old_filename, to |-> new_filename,
                                     step |-> 3, ok |-> TRUE]),
            !.renamed = Append(acc.renamed, [old |-> old_filename,
                                             new |-> new_filename])]
    ELSE ExportSegment(
            [acc EXCEPT !.ops = Append(acc.ops,
                [op |-> "rename", id |-> seg.id, name |-> old_filename,
                 to |-> new_filename, step |-> 3, ok |-> FALSE])],
            seg)

\* result_segments[seg_id] = {start, end, text, index, index_sub}
Record(acc, seg) ==
    IF acc.raised THEN acc ELSE [acc EXCEPT !.segments = Append(acc.segments, seg)]

----------------------------------------------------------------------------
\* src/src/splitter.py: AudioSplitter.export_diff

Abs(x) == IF x < 0 THEN -x ELSE x

\* the tolerance 0.001 s of the time comparison, in time units
Tolerance == 1

\* step 1: previous segments that are not in merged_segments
RECURSIVE DeleteRemoved(_, _, _, _)
DeleteRemoved(acc, previous_segments, i, merged_segments) ==
    IF i > Len(previous_segments) THEN acc
    ELSE LET prev_seg == previous_segments[i]
         IN  DeleteRemoved(
                 IF ~HasId(merged_segments, prev_seg.id) /\ prev_seg.index # None
                 THEN DeleteFile(acc, prev_seg.id, generate_filename(prev_seg), 1, TRUE)
                 ELSE acc,
                 previous_segments, i + 1, merged_segments)

TimeChanged_mut(seg, prev_seg) ==
    Abs(seg.start - prev_seg.start) > Tolerance

TimeChanged(seg, prev_seg) ==
    \/ Abs(seg.start - prev_seg.start) > Tolerance
    \/ Abs(seg.end - prev_seg.end) > Tolerance

\* the branch for a segment that has a previous state
ExistingSegment(acc, seg, prev_seg, time_changed, text_changed) ==
    LET new_filename == generate_filename(seg)
        old_filename == generate_filename(prev_seg)
    IN  IF time_changed
        THEN ExportSegment(
                 IF old_filename # new_filename
                 THEN DeleteFile(acc, seg.id, old_filename, 3, FALSE)
                 ELSE acc,
                 seg)
        ELSE IF text_changed \/ old_filename # new_filename
        THEN RenameOrExport(acc, seg, old_filename, new_filename)
        ELSE IF acc.raised THEN acc
        ELSE [acc EXCEPT !.skipped = acc.skipped + 1]

\* step 3, one segment
ProcessSegment_noforce(acc, seg, previous_segments, force) ==
    Record(
        IF HasId(previous_segments, seg.id)
        THEN LET prev_seg == Get(previous_segments, seg.id)
             IN  ExistingSegment(acc, seg, prev_seg, TimeChanged(seg, prev_seg),
                                 seg.text # prev_seg.text)
        ELSE ExportSegment(acc, seg),
        seg)

ProcessSegment_export(acc, seg, previous_segments, force) ==
    Record(ExportSegment(acc, seg), seg)

ProcessSegment(acc, seg, previous_segments, force) ==
    Record(
        IF HasId(previous_segments, seg.id) /\ ~force
        THEN LET prev_seg == Get(previous_segments, seg.id)
             IN  ExistingSegment(acc, seg, prev_seg, TimeChanged(seg, prev_seg),
                                 seg.text # prev_seg.text)
        ELSE ExportSegment(acc, seg),
        seg)

RECURSIVE ProcessAll(_, _, _, _, _)
ProcessAll(acc, segments_with_index, i, previous_segments, force) ==
    IF i > Len(segments_with_index) THEN acc
    ELSE ProcessAll(
             ProcessSegment(acc, segments_with_index[i], previous_segments, force),
             segments_with_index, i + 1, previous_segments, force)

\* the steps in the wrong order: step 3 first, the step 1 deletes after it
export_diff_mut(fs, merged_segments, previous_segments, edit_segments, force) ==
    DeleteRemoved(
        ProcessAll(
            EmptyAcc(fs),
            assign_indices(merged_segments,
                           IF ~force THEN previous_segments ELSE <<>>,
                           index_sub_digits),
            1, previous_segments, force),
        previous_segments, 1, merged_segments)

export_diff(fs, merged_segments, previous_segments, edit_segments, force) ==
    ProcessAll(
        DeleteRemoved(EmptyAcc(fs), previous_segments, 1, merged_segments),
        assign_indices(merged_segments,
                       IF ~force THEN previous_segments ELSE <<>>,
                       index_sub_digits),
        1, previous_segments, force)

----------------------------------------------------------------------------
\* src/split.py: export_diff_v2

\* changes.get("deleted"): no writer of the overlay sets the flag
Deleted(changes) == "deleted" \in DOMAIN changes /\ changes.deleted

\* step 1: overlay entries flagged deleted
RECURSIVE DeleteFlagged(_, _, _, _)
DeleteFlagged(acc, edit_segments, i, previous_segments) ==
    IF i > Len(edit_segments) THEN acc
    ELSE LET changes == edit_segments[i]
         IN  DeleteFlagged(
                 IF /\ Deleted(changes)
                    /\ HasId(previous_segments, changes.id)
                    /\ Get(previous_segments, changes.id).index # None
                 THEN DeleteFile(acc, changes.id,
                          generate_filename(Get(previous_segments, changes.id)),
                          1, TRUE)
                 ELSE acc,
                 edit_segments, i + 1, previous_segments)

\* "start" in changes or "end" in changes or the times differ
TimeChangedV2(seg, prev_seg, edit_segments) ==
    \/ /\ HasId(edit_segments, seg.id)
       /\ \/ Get(edit_segments, seg.id).start # None
          \/ Get(edit_segments, seg.id).end # None
    \/ Abs(seg.start - prev_seg.start) > Tolerance
    \/ Abs(seg.end - prev_seg.end) > Tolerance

\* "text" in changes
TextInChanges(seg, edit_segments) ==
    HasId(edit_segments, seg.id) /\ Get(edit_segments, seg.id).text # None

ProcessSegmentV2(acc, seg, previous_segments, edit_segments, force) ==
    Record(
        IF HasId(previous_segments, seg.id) /\ ~force
        THEN LET prev_seg == Get(previous_segments, seg.id)
             IN  ExistingSegment(acc, seg, prev_seg,
                                 TimeChangedV2(seg, prev_seg, edit_segments),
                                 TextInChanges(seg, edit_segments))
        ELSE ExportSegment(acc, seg),
        seg)

RECURSIVE ProcessAllV2(_, _, _, _, _, _)
ProcessAllV2(acc, segments_with_index, i, previous_segments, edit_segments, force) ==
    IF i > Len(segments_with_index) THEN acc
    ELSE ProcessAllV2(
             ProcessSegmentV2(acc, segments_with_index[i], previous_segments,
                              edit_segments, force),
             segments_with_index, i + 1, previous_segments, edit_segments, force)

export_diff_v2(fs, merged_segments, previous_segments, edit_segments, force) ==
    ProcessAllV2(
        DeleteFlagged(EmptyAcc(fs), edit_segments, 1, previous_segments),
        assign_indices(merged_segments,
                       IF ~force THEN previous_segments ELSE <<>>,
                       index_sub_digits),
        1, previous_segments, edit_segments, force)

----------------------------------------------------------------------------
\* src/src/json_loader.py: merge_segments, get_next_segment_id

\* the base with the overlay's fields laid over it, entry by entry
merge_segments_mut(transcript_segments, edit_segments) ==
    [i \in 1..Len(transcript_segments) |->
        IF HasId(edit_segments, transcript_segments[i].id)
        THEN [transcript_segments[i] EXCEPT
                 !.start = Get(edit_segments, transcript_segments[i].id).start,
                 !.end = Get(edit_segments, transcript_segments[i].id).end,
                 !.text = Get(edit_segments, transcript_segments[i].id).text]
        ELSE transcript_segments[i]]
    \o SelectSeq(edit_segments, LAMBDA e : ~HasId(transcript_segments, e.id))

merge_segments(transcript_segments, edit_segments) ==
    IF edit_segments # <<>> THEN edit_segments ELSE transcript_segments

MaxOf(S) == CHOOSE x \in S : \A y \in S : y <= x

\* max id + 1, or 1 for no segments
get_next_segment_id(ids) == IF ids = {} THEN 1 ELSE MaxOf(ids) + 1

----------------------------------------------------------------------------
\* src/gui/app.py: segments_list_to_dict (the current_segments it returns)

\* first the entries that carry a _seg_id, in list order
WithSegId(segments_list) == SelectSeq(segments_list, LAMBDA seg : seg.id # None)

\* then the new ones, each given the next free id
RECURSIVE NumberNew(_, _, _, _)
NumberNew(segments_list, i, current_segments, transcript_ids) ==
    IF i > Len(segments_list) THEN current_segments
    ELSE IF segments_list[i].id # None
    THEN NumberNew(segments_list, i + 1, current_segments, transcript_ids)
    ELSE NumberNew(segments_list, i + 1,
             Append(current_segments,
                 [segments_list[i] EXCEPT
                     !.id = get_next_segment_id(Ids(current_segments)
                                                \cup transcript_ids)]),
             transcript_ids)

segments_list_to_dict(segments_list, transcript_segments) ==
    NumberNew(segments_list, 1, WithSegId(segments_list), Ids(transcript_segments))

\* the full snapshot save_json writes: start, end and text only
FullSnapshot(current_segments) ==
    [i \in 1..Len(current_segments) |->
        [current_segments[i] EXCEPT !.index = None, !.index_sub = None]]

----------------------------------------------------------------------------
\* Bounds and input domains

MaxId == 2          \* segment ids are 1..MaxId
MaxPasses == 2      \* reconciliation passes in one behaviour
MaxSaves == 1       \* overlay writes in one behaviour

\* The (start, end, text) a segment can have: a base shape, its start moved
\* by the tolerance, its end moved, its text changed (to another name and to
\* the same name), and a later segment.
Shapes ==
    {<<0, 5, <<"a">>>>, <<1, 5, <<"a">>>>, <<0, 7, <<"a">>>>,
     <<0, 5, <<"b">>>>, <<0, 5, <<"a", "?">>>>, <<3, 5, <<"b">>>>}

\* The shapes of the segments the detection found
InitialShapes == {<<0, 5, <<"a">>>>, <<3, 5, <<"b">>>>}

Seg(id, shape, index, index_sub) ==
    [id |-> id, start |-> shape[1], end |-> shape[2], text |-> shape[3],
     index |-> index, index_sub |-> index_sub]

\* what transcribe.py leaves behind: ids 1..k in detection (time) order, no keys
InitialOverlays ==
    UNION {
        {[i \in 1..k |-> Seg(i, sh[i], None, None)] :
            sh \in {f \in [1..k -> InitialShapes] :
                       \A i, j \in 1..k : i < j => f[i][1] <= f[j][1]}}
        : k \in 1..MaxId}

\* The segment lists a client can send: any order of any subset of the ids it
\* was served (those of the canonical record and of the overlay) and of new
\* segments without id, while the ids stay within 1..MaxId.  With keyed, the
\* entries of canonical segments carry the key they were served with.
KnownIds == Ids(transcript) \cup Ids(overlay)

SlotLists(n) ==
    {f \in [1..n -> KnownIds \cup {None}] :
        /\ \A i, j \in 1..n : (i # j /\ f[i] # None) => f[i] # f[j]
        /\ get_next_segment_id(KnownIds) - 1
             + Cardinality({i \in 1..n : f[i] = None}) <= MaxId}

ServedIndex(id, keyed) ==
    IF keyed /\ id # None /\ HasId(transcript, id)
    THEN Get(transcript, id).index ELSE None

ServedIndexSub(id, keyed) ==
    IF keyed /\ id # None /\ HasId(transcript, id)
    THEN Get(transcript, id).index_sub ELSE None

SegmentLists(keyed) ==
    UNION {
        {[i \in 1..n |-> Seg(f[i], sh[i], ServedIndex(f[i], keyed),
                             ServedIndexSub(f[i], keyed))] :
            f \in SlotLists(n), sh \in [1..n -> Shapes]}
        : n \in 0..MaxId}

----------------------------------------------------------------------------
\* The handlers

NoFiles == [n \in {} |-> None]

Idle(kind) ==
    [kind |-> kind, entry |-> "none", force |-> FALSE, working |-> <<>>,
     previous |-> <<>>, edit |-> <<>>, files0 |-> NoFiles, ops |-> <<>>,
     exported |-> <<>>, renamed |-> <<>>, deleted |-> <<>>, skipped |-> 0,
     segments |-> <<>>, fault |-> None]

\* The record of a pass.  When the pass raised, the handler caught the
\* exception and returned an error: kind is "failed", fault is the id the
\* materializer raised for, and the lists are the pass's local lists at the
\* raise, which no caller received.
PassRecord(entry, force, working, previous, edit, fs, acc) ==
    [kind |-> IF acc.raised THEN "failed" ELSE "pass",
     entry |-> entry, force |-> force, working |-> working,
     previous |-> previous, edit |-> edit, files0 |-> fs, ops |-> acc.ops,
     exported |-> acc.exported, renamed |-> acc.renamed, deleted |-> acc.deleted,
     skipped |-> acc.skipped, segments |-> acc.segments,
     fault |-> IF acc.raised THEN fault.id ELSE None]

Init ==
    /\ transcript = <<>>
    /\ overlay \in InitialOverlays
    /\ files = NoFiles
    /\ last = Idle("init")
    /\ passes = 0
    /\ saves = 0
    /\ exhausted = FALSE
    /\ fault = NoFault
    /\ a_in = NoKey
    /\ a_out = NoKey

\* gui/app.py save_json: POST /api/save
SaveJson(segments_list) ==
    /\ overlay' = FullSnapshot(segments_list_to_dict(segments_list, transcript))
    /\ last' = Idle("save")
    /\ saves' = saves + 1
    /\ UNCHANGED <<transcript, files, passes, exhausted, fault, a_in, a_out>>

\* gui/app.py regenerate_audio: POST /api/regenerate
Regenerate(segments_list, force) ==
    /\ \E current_segments \in {segments_list_to_dict(segments_list, transcript)} :
       \E acc \in {export_diff(files, current_segments, transcript, <<>>, force)} :
           /\ transcript' = IF acc.raised THEN transcript ELSE acc.segments
           /\ files' = acc.files
           /\ last' = PassRecord("export_diff", force, current_segments,
                                 transcript, <<>>, files, acc)
           /\ exhausted' = (exhausted \/ PassNoRoom(current_segments,
                                 IF ~force THEN transcript ELSE <<>>,
                                 index_sub_digits))
    /\ passes' = passes + 1
    /\ fault' = NoFault
    /\ UNCHANGED <<overlay, saves, a_in, a_out>>

\* split.py main
SplitMain(force) ==
    /\ \E merged_segments \in {merge_segments(transcript, overlay)} :
       \E acc \in {export_diff_v2(files, merged_segments, transcript, overlay, force)} :
           /\ transcript' = IF acc.raised THEN transcript ELSE acc.segments
           /\ files' = acc.files
           /\ last' = PassRecord("export_diff_v2", force, merged_segments,
                                 transcript, overlay, files, acc)
           /\ exhausted' = (exhausted \/ PassNoRoom(merged_segments,
                                 IF ~force THEN transcript ELSE <<>>,
                                 index_sub_digits))
           /\ overlay' = IF acc.raised THEN overlay ELSE <<>>
    /\ passes' = passes + 1
    /\ fault' = NoFault
    /\ UNCHANGED <<saves, a_in, a_out>>

\* A client request reaches a handler only while the behaviour has budget left
\* for it; after an overlay write the next pass explored is the one that reads
\* the overlay (split.py), since regenerate_audio never reads that file.
SaveRequest ==
    /\ saves < MaxSaves /\ passes < MaxPasses
    /\ \E segments_list \in SegmentLists(FALSE) : SaveJson(segments_list)

RegenerateRequest ==
    /\ passes < MaxPasses /\ last.kind # "save"
    /\ \E keyed \in BOOLEAN, force \in BOOLEAN :
           \E segments_list \in SegmentLists(keyed) :
               Regenerate(segments_list, force)

SplitRun ==
    /\ passes < MaxPasses
    /\ \E force \in BOOLEAN : SplitMain(force)

Next ==
    \/ SaveRequest
    \/ RegenerateRequest
    \/ SplitRun

Spec == Init /\ [][Next]_vars

----------------------------------------------------------------------------
\* The GUI handlers with the session token: the server draws _session_id at
\* start-up, serves it with the data, and a client sends back the one it
\* holds (a page loaded before a restart holds a stale one; "absent" is a
\* request without the field, data.get('session_id') being None).

_session_id == "current"

ClientSessionIds == {_session_id, "stale", "absent"}

\* the 409 answer with error_code SESSION_MISMATCH
SessionMismatch(handler) ==
    /\ last' = [Idle("SESSION_MISMATCH") EXCEPT !.entry = handler]
    /\ UNCHANGED <<transcript, overlay, files, passes, saves, exhausted, fault, a_in, a_out>>

\* the check made after the write
save_json_mut(client_session_id, segments_list) ==
    /\ overlay' = FullSnapshot(segments_list_to_dict(segments_list, transcript))
    /\ last' = IF client_session_id # _session_id
               THEN [Idle("SESSION_MISMATCH") EXCEPT !.entry = "save_json"]
               ELSE Idle("save")
    /\ saves' = saves + 1
    /\ UNCHANGED <<transcript, files, passes, exhausted, fault, a_in, a_out>>

save_json(client_session_id, segments_list) ==
    IF client_session_id # _session_id
    THEN SessionMismatch("save_json")
    ELSE SaveJson(segments_list)

regenerate_audio(client_session_id, segments_list, force) ==
    IF client_session_id # _session_id
    THEN SessionMismatch("regenerate_audio")
    ELSE Regenerate(segments_list, force)

\* the segments of a refused request are never read: one list stands for all
SentLists(client_session_id, keyed) ==
    IF client_session_id = _session_id THEN SegmentLists(keyed) ELSE {<<>>}

SaveCall ==
    /\ saves < MaxSaves /\ passes < MaxPasses
    /\ \E client_session_id \in ClientSessionIds :
       \E segments_list \in SentLists(client_session_id, FALSE) :
           save_json(client_session_id, segments_list)

RegenerateCall ==
    /\ passes < MaxPasses /\ last.kind # "save"
    /\ \E client_session_id \in ClientSessionIds :
       \E keyed \in BOOLEAN, force \in BOOLEAN :
       \E segments_list \in SentLists(client_session_id, keyed) :
           regenerate_audio(client_session_id, segments_list, force)

NextSession ==
    \/ SaveCall
    \/ RegenerateCall

SpecSession == Init /\ [][NextSession]_vars

----------------------------------------------------------------------------
\* The same handlers with a materializer that can fail: before a pass, the
\* environment may decide that the next file operation for one segment
\* raises (a full disk, a locked file, an encoder error).

\* the force flags of a pass explored with a fault armed
FaultyForce == {FALSE}

ArmFault ==
    /\ fault = NoFault /\ passes = MaxPasses - 1
    /\ \E id \in 1..MaxId, op \in {"delete", "rename", "export"} :
           fault' = [id |-> id, op |-> op]
    /\ UNCHANGED <<transcript, overlay, files, last, passes, saves, exhausted, a_in, a_out>>

\* The fault is armed before the last pass of a run, so that it can hit an
\* export of a new entry, a rename or a delete of an entry written earlier;
\* the pass it is armed for is the next step, and the client of that pass
\* sends the keys it was served.
FaultyRegenerate ==
    /\ fault # NoFault /\ passes < MaxPasses /\ last.kind # "save"
    /\ \E force \in FaultyForce :
           \E segments_list \in SegmentLists(TRUE) :
               Regenerate(segments_list, force)

FaultySplit ==
    /\ fault # NoFault /\ passes < MaxPasses
    /\ \E force \in FaultyForce : SplitMain(force)

NextFault ==
    \/ ArmFault
    \/ fault = NoFault /\ SaveRequest
    \/ fault = NoFault /\ RegenerateRequest
    \/ fault = NoFault /\ SplitRun
    \/ FaultyRegenerate
    \/ FaultySplit

SpecFault == Init /\ [][NextFault]_vars

----------------------------------------------------------------------------
\* The allocator on its own: determine_index applied to arguments drawn from
\* bounded sets.

MaxIndex == 6       \* primary index values 0..MaxIndex
MaxSubDigits == 3   \* index_sub_digits in 1..MaxSubDigits
MaxL == 2           \* l in 1..MaxL

\* sub-keys near the ends and the middle of [0, 10^d - 1]
SubSamples(d) ==
    LET top == max_index_sub_of(d)
        mid == Pow10(d) \div 2
    IN  {x \in {0, 1, 2, 3, mid - 1, mid, mid + 1, top - 2, top - 1, top} :
            0 <= x /\ x <= top}

AllocKeys(d) ==
    {NoKey} \cup {<<N, n>> : N \in 0..MaxIndex, n \in SubSamples(d)}

AllocInputs ==
    UNION {[before : AllocKeys(d), after : AllocKeys(d), l : 1..MaxL, d : {d}] :
              d \in 1..MaxSubDigits}

InitAlloc ==
    /\ transcript = <<>>
    /\ overlay = <<>>
    /\ files = NoFiles
    /\ last = Idle("init")
    /\ passes = 0
    /\ saves = 0
    /\ exhausted = FALSE
    /\ fault = NoFault
    /\ a_in \in AllocInputs
    /\ a_out = NoKey

Allocate ==
    /\ a_out = NoKey
    /\ a_out' = determine_index(a_in.before, a_in.after, a_in.l, a_in.d)
    /\ UNCHANGED <<transcript, overlay, files, last, passes, saves, exhausted, fault, a_in>>

NextAlloc == Allocate

SpecAlloc == InitAlloc /\ [][NextAlloc]_vars

----------------------------------------------------------------------------
\* Properties of the allocator (checked under SpecAlloc)

Called == a_out # NoKey

\* before < after, an absent before counting as (0, 0) and an absent after
\* as (infinity, 0)
ValidNeighbours(before, after) ==
    after = NoKey \/ KeyLess(BeforeOrZero(before), after)

\* room remains: a free primary index value, or a sub-key distance of at
\* least l + 1
HasRoom(before, after, l, d) ==
    LET N == BeforeOrZero(before)[1]
        n == BeforeOrZero(before)[2]
    IN  \/ after = NoKey
        \/ N + 1 < after[1]
        \/ N + 1 = after[1] /\ (after[2] # 0 \/ max_index_sub_of(d) - n >= l + 1)
        \/ N = after[1] /\ after[2] - n >= l + 1

\* C6: for valid neighbours with room remaining, determine_index returns a
\* key strictly greater than before and strictly less than after.
C6_StrictlyBetween ==
    (/\ Called
     /\ ValidNeighbours(a_in.before, a_in.after)
     /\ HasRoom(a_in.before, a_in.after, a_in.l, a_in.d))
    => /\ KeyLess(BeforeOrZero(a_in.before), a_out)
       /\ a_in.after # NoKey => KeyLess(a_out, a_in.after)

\* a call between two sub-keys of one primary index (rule 3) with room
C6_Witness ==
    /\ Called
    /\ a_in.before # NoKey /\ a_in.after # NoKey
    /\ a_in.before[1] = a_in.after[1]
    /\ HasRoom(a_in.before, a_in.after, a_in.l, a_in.d)
    /\ KeyLess(a_in.before, a_out) /\ KeyLess(a_out, a_in.after)

C7_Input ==
    a_in = [before |-> <<5, 0>>, after |-> <<6, 0>>, l |-> 1, d |-> 3]

\* C7 as stated: determine_index((5,0), (6,0), l=1, index_sub_digits=3)
\* returns (5, 500).
C7_Original == (Called /\ C7_Input) => a_out = <<5, 500>>

\* C7 as amended: determine_index((5,0), (6,0), l=1, index_sub_digits=3)
\* returns (5, 499), that is 0 + floor((999 - 0) / 2).
C7_Returns499 == (Called /\ C7_Input) => a_out = <<5, 499>>

C7_Witness == Called /\ C7_Input

----------------------------------------------------------------------------
\* Properties of a reconciliation pass (checked under Spec).  They read the
\* record the last handler left: its inputs, its file operations in order,
\* and its result.

IsPass == last.kind = "pass"

NonForced == IsPass /\ ~last.force

Working == {last.working[i] : i \in 1..Len(last.working)}

Previous == {last.previous[i] : i \in 1..Len(last.previous)}

\* the file operations of the pass for one id, in execution order, each as
\* <<operation, name, target name>>
OpsOf(id) ==
    LET mine == SelectSeq(last.ops, LAMBDA o : o.id = id)
    IN  [i \in 1..Len(mine) |-> <<mine[i].op, mine[i].name, mine[i].to>>]

PrevOf(w) == Get(last.previous, w.id)

OldName(w) == generate_filename(PrevOf(w))

\* the name of the entry's artifact under the key the pass gave it
NewName(w) == generate_filename(Get(last.segments, w.id))

SameTimes(w) ==
    /\ Abs(w.start - PrevOf(w).start) <= Tolerance
    /\ Abs(w.end - PrevOf(w).end) <= Tolerance

\* C1: in a non-forced pass, an entry whose id is in previous with a key and
\* whose artifact exists, with the same start and end (within the tolerance)
\* and a different text, gets exactly one rename, from the old name to the
\* new one, and no export and no delete; on both entry points.
C1_RenameOnly ==
    \A w \in Working :
        (/\ NonForced
         /\ HasId(last.previous, w.id)
         /\ PrevOf(w).index # None
         /\ Exists(last.files0, OldName(w))
         /\ SameTimes(w)
         /\ w.text # PrevOf(w).text)
        => OpsOf(w.id) = << <<"rename", OldName(w), NewName(w)>> >>

\* C2: in a non-forced pass, an entry whose start or end differs from its
\* previous start or end by more than the tolerance is exported under its
\* new name and never renamed; when the old name differs from the new name
\* the old artifact is deleted, and the delete precedes the export.
C2_TimeChangeExports ==
    \A w \in Working :
        (/\ NonForced
         /\ HasId(last.previous, w.id)
         /\ ~SameTimes(w))
        => OpsOf(w.id) =
               (IF OldName(w) # NewName(w)
                THEN << <<"delete", OldName(w), OldName(w)>> >> ELSE <<>>)
               \o << <<"export", NewName(w), NewName(w)>> >>

\* a pass that deleted the old artifact of a time-changed entry and then
\* exported it under another name
C2_Witness ==
    \E w \in Working :
        /\ NonForced
        /\ HasId(last.previous, w.id)
        /\ ~SameTimes(w)
        /\ OldName(w) # NewName(w)
        /\ Exists(last.files0, OldName(w))
        /\ ~Exists(files, OldName(w))
        /\ Exists(files, NewName(w))
        /\ Len(OpsOf(w.id)) = 2

\* C3: for every id in previous with a key and absent from the working set,
\* the pass deletes the artifact named from the previous key and text,
\* reports it in the deleted list, and the new record has no entry for the
\* id; on both entry points.
C3_RemovedIsDeleted ==
    \A p \in Previous :
        (IsPass /\ p.index # None /\ ~HasId(last.working, p.id))
        => /\ <<"delete", generate_filename(p), generate_filename(p)>>
                \in {OpsOf(p.id)[i] : i \in 1..Len(OpsOf(p.id))}
           /\ Exists(last.files0, generate_filename(p))
                => \E i \in 1..Len(last.deleted) :
                       last.deleted[i] = generate_filename(p)
           /\ ~HasId(last.segments, p.id)

\* the step 1 operations of the pass
Step1Ops == SelectSeq(last.ops, LAMBDA o : o.step = 1)

\* with force every working entry is exported, none renamed, none skipped
ForceExportsAll ==
    /\ \A w \in Working :
           OpsOf(w.id) = << <<"export", NewName(w), NewName(w)>> >>
    /\ Len(last.exported) = Len(last.working)
    /\ last.renamed = <<>>
    /\ last.skipped = 0

C5_Idempotent ==
    (/\ NonForced
     /\ Working = Previous
     /\ Len(last.working) = Len(last.previous))
    => /\ last.ops = <<>>
       /\ last.exported = <<>> /\ last.renamed = <<>> /\ last.deleted = <<>>
       /\ last.skipped = Len(last.working)
       /\ files = last.files0

\* a non-forced pass over two segments that equal their previous state
C5_Witness ==
    /\ NonForced
    /\ Working = Previous
    /\ Len(last.working) = 2 /\ Len(last.previous) = 2
    /\ last.skipped = 2

----------------------------------------------------------------------------
\* Properties of the keys a pass leaves in the canonical record

ResultOf(id) == Get(last.segments, id)

\* C8: in a non-forced pass, a segment whose id is in previous with a key has
\* the same key in the new canonical record, whatever the working set carries
\* and however it was produced (keyed entries or a full-snapshot overlay).
C8_KeyStable ==
    \A w \in Working :
        (NonForced /\ HasId(last.previous, w.id) /\ PrevOf(w).index # None)
        => KeyOf(ResultOf(w.id)) = KeyOf(PrevOf(w))

\* C9: after any sequence of passes in which no sub-key gap is exhausted, no
\* two segments of the canonical record have the same (index, index_sub), an
\* absent index_sub counting as 0.
C9_KeysUnique ==
    ~exhausted
    => \A i, j \in 1..Len(transcript) :
           i # j => KeyOf(transcript[i]) # KeyOf(transcript[j])

\* the segments that are keyed when the pass starts: those of previous and
\* those of the working set
KeyedAtStart == {s \in Previous \cup Working : s.index # None}

\* the keyed segments are ordered consistently with their starts
KeyedConsistent ==
    \A a, b \in KeyedAtStart : a.start < b.start => KeyLess(KeyOf(a), KeyOf(b))

\* the working entries the pass assigned a key to
Assigned == {w \in Working : w.index = None}

\* the keyed segments an assigned key is compared with: the other segments
\* of the new canonical record, which were keyed in the working set or
\* assigned in the pass (a previous segment the pass removed no longer counts)
KeyedAround(w) ==
    {last.segments[i] : i \in {j \in 1..Len(last.segments) :
                                   last.segments[j].id # w.id}}

\* room remains between the neighbours of w in time order
RoomAround(w) ==
    LET lower == {KeyOf(s) : s \in {k \in KeyedAtStart : k.start < w.start}}
        upper == {KeyOf(s) : s \in {k \in KeyedAtStart : k.start > w.start}}
        before == IF lower = {} THEN NoKey
                  ELSE CHOOSE k \in lower :
                           \A o \in lower : o = k \/ KeyLess(o, k)
        after == IF upper = {} THEN NoKey
                 ELSE CHOOSE k \in upper :
                          \A o \in upper : o = k \/ KeyLess(k, o)
    IN  HasRoom(before, after, 1, index_sub_digits)

\* C10: every key a pass assigns to an unkeyed entry sorts strictly after the
\* key of every keyed segment (of previous, of the working set, or assigned
\* in the pass) that is in the new record and has a smaller start and strictly before the key of every one
\* with a larger start, provided the keyed segments were ordered consistently
\* with their starts and room remains.
C10_KeyOrderFollowsTime ==
    \A w \in Assigned :
        (IsPass /\ ~exhausted /\ KeyedConsistent /\ RoomAround(w))
        => \A k \in KeyedAround(w) :
               /\ k.start < w.start => KeyLess(KeyOf(k), KeyOf(ResultOf(w.id)))
               /\ k.start > w.start => KeyLess(KeyOf(ResultOf(w.id)), KeyOf(k))

----------------------------------------------------------------------------
\* Properties of the merge and of the handlers around a pass

\* a run of split.py main that got as far as the merge
MergedRun == last.entry = "export_diff_v2"

\* C11: for every base and every non-empty overlay, merge_segments(base,
\* overlay) is the overlay exactly (same ids, same fields, no field of the
\* base merged in for a shared id); for an empty overlay it is the base.
C11_MergeReplaces ==
    MergedRun
    => last.working = IF last.edit # <<>> THEN last.edit ELSE last.previous

\* a merge of a keyed base with a non-empty overlay that lacks one of the
\* base's ids and changes the text of another
C11_Witness ==
    /\ MergedRun
    /\ last.edit # <<>>
    /\ \E p \in Previous : ~HasId(last.edit, p.id)
    /\ \E p \in Previous :
           /\ HasId(last.edit, p.id)
           /\ Get(last.edit, p.id).text # p.text
           /\ p.index # None
           /\ Get(last.working, p.id).index = None

----------------------------------------------------------------------------
\* Failure of the materializer (SpecFault)

Failed == last.kind = "failed"

\* the entries the pass had finished (result_segments) when it stopped
Finished == {last.segments[i] : i \in 1..Len(last.segments)}

\* C12: when the materializer raises for one segment, the pass still returns
\* its structured result, and every other segment of the working set has been
\* processed (it is in the result's segments).
C12_FailureIsolated ==
    last.fault # None
    => /\ last.kind = "pass"
       /\ \A w \in Working : w.id # last.fault => HasId(last.segments, w.id)

\* C13: after a pass in which the materializer raised for one entry, the
\* persisted record holds every entry the pass had finished with its new
\* state, and the failed entry with its previous state (or not at all when
\* it was new).
C13_RecordAfterFailure ==
    Failed
    => /\ \A r \in Finished : HasId(transcript, r.id) /\ Get(transcript, r.id) = r
       /\ IF HasId(last.previous, last.fault)
          THEN /\ HasId(transcript, last.fault)
               /\ Get(transcript, last.fault) = Get(last.previous, last.fault)
          ELSE ~HasId(transcript, last.fault)

----------------------------------------------------------------------------
\* The overlay after a pass

\* C14: once a pass has completed and persisted the new canonical record, the
\* overlay holds no segments, on the CLI path and on the GUI path alike, so
\* the next load (merge of the record with the overlay) yields the record.
C14_OverlayCleared ==
    IsPass
    => /\ overlay = <<>>
       /\ merge_segments(transcript, overlay) = transcript

----------------------------------------------------------------------------
\* The order of the steps

\* C15: in a pass every step 1 delete (the artifact of an id removed from the
\* working set) executes before any step 3 export, rename or delete, so that
\* no step 3 operation runs while a step 1 deletion is still to come.
C15_Step1First ==
    IsPass
    => \A i, j \in 1..Len(last.ops) :
           (i < j /\ last.ops[j].step = 1) => last.ops[i].step = 1

\* a pass that deletes the artifact of a removed id in step 1 and then, in
\* step 3, exports another entry under the very name it deleted
C15_Witness ==
    /\ IsPass
    /\ \E i, j \in 1..Len(last.ops) :
           /\ last.ops[i].step = 1 /\ last.ops[i].op = "delete" /\ last.ops[i].ok
           /\ last.ops[j].step = 3 /\ last.ops[j].op = "export"
           /\ last.ops[j].to = last.ops[i].name
           /\ last.ops[j].id # last.ops[i].id

----------------------------------------------------------------------------
\* src/src/utils.py: format_index_string, expand_filename_template
\* A template is a sequence of tokens: the variables "{index}" and
\* "{basename}", and single characters.

format_index_string(index, index_sub, index_digits_, index_sub_digits_) ==
    LET index_str == ZFill(Str(index), index_digits_)
    IN  IF index_sub # None /\ index_sub # 0
        THEN index_str \o <<"-">> \o ZFill(Str(index_sub), index_sub_digits_)
        ELSE index_str

\* s.endswith(suffix)
EndsWith(s, suffix) ==
    /\ Len(s) >= Len(suffix)
    /\ SubSeq(s, Len(s) - Len(suffix) + 1, Len(s)) = suffix

\* template.replace("{index}", index_str).replace("{basename}", basename)
RECURSIVE Replace(_, _, _)
Replace(template, index_str, basename) ==
    IF template = <<>> THEN <<>>
    ELSE (IF Head(template) = "{index}" THEN index_str
          ELSE IF Head(template) = "{basename}" THEN basename
          ELSE <<Head(template)>>)
         \o Replace(Tail(template), index_str, basename)

expand_filename_template(template, index, index_sub, text, extension, index_digits_, index_sub_digits_, max_text_length) ==
    LET ext       == IF extension # <<>> /\ Head(extension) = "."
                     THEN extension ELSE <<".">> \o extension
        index_str == format_index_string(index, index_sub, index_digits_,
                                         index_sub_digits_)
        basename  == sanitize_filename(text, max_text_length) \o ext
        result    == Replace(template, index_str, basename)
    IN  IF EndsWith(result, ext) THEN result ELSE result \o ext

----------------------------------------------------------------------------
\* Naming harness: the name a pass uses for a segment of a record whose
\* output_format carries a template, next to the template's expansion.

DefaultTemplate == <<"{index}", "_", "{basename}">>

Templates ==
    {DefaultTemplate,
     <<"{basename}">>,
     <<"{index}", "-", "{basename}">>,
     <<"s", "_", "{index}", "_", "{basename}">>}

NameInputs ==
    [template : Templates,
     seg : {Seg(1, shape, index, index_sub) :
               shape \in Shapes, index \in 1..MaxIndex,
               index_sub \in {None, 0, 5, 500}}]

InitName ==
    /\ transcript = <<>>
    /\ overlay = <<>>
    /\ files = NoFiles
    /\ last = Idle("init")
    /\ passes = 0
    /\ saves = 0
    /\ exhausted = FALSE
    /\ fault = NoFault
    /\ a_in \in NameInputs
    /\ a_out = NoKey

\* export_diff names the artifact with generate_filename(seg, index_digits,
\* index_sub_digits): the record's template is not among the arguments
NameArtifact ==
    /\ a_out = NoKey
    /\ a_out' = [used |-> generate_filename(a_in.seg),
                 expanded |-> expand_filename_template(
                                  a_in.template, a_in.seg.index,
                                  a_in.seg.index_sub, a_in.seg.text,
                                  file_extension, index_digits,
                                  index_sub_digits, max_filename_length)]
    /\ UNCHANGED <<transcript, overlay, files, last, passes, saves, exhausted, fault, a_in>>

NextName == NameArtifact

SpecName == InitName /\ [][NextName]_vars

\* C16: the artifact name a pass uses for a segment is the expansion of the
\* record's filename_template ({index} replaced by the formatted key,
\* {basename} by the sanitised text plus extension), for every template.
C16_NameIsTemplateExpansion ==
    a_out # NoKey => a_out.used = a_out.expanded

\* with the default template the name used is the expansion
C16_DefaultTemplate ==
    (a_out # NoKey /\ a_in.template = DefaultTemplate)
    => a_out.used = a_out.expanded

----------------------------------------------------------------------------
\* src/src/json_loader.py: load_transcript_json, migrate_transcript,
\* validate_transcript_v2
\* A parsed JSON object is a function from its keys; the "segments" value is
\* [shape, items]: a JSON array ("list"), a JSON object ("dict", the keys
\* being the positions) or a number ("other").

Has(d, k) == k \in DOMAIN d

Required == {"start", "end", "text"}

Error(kind) == [ok |-> FALSE, error |-> kind]

Ok(data) == [ok |-> TRUE, data |-> data]

\* enumerate(..., start=0): the ids start at 0
migrate_transcript_mut(old_data) ==
    LET segs == IF Has(old_data, "segments") THEN old_data.segments
                ELSE [shape |-> "list", items |-> <<>>]
    IN  IF segs.shape # "list" \/ ~Has(old_data, "source_file")
           \/ \E i \in 1..Len(segs.items) : ~(Required \subseteq DOMAIN segs.items[i])
        THEN Error("KeyError")
        ELSE Ok([version |-> 2, source_file |-> old_data.source_file,
                 segments |-> [i \in 1..Len(segs.items) |->
                     [id |-> i - 1,
                      start |-> segs.items[i].start,
                      end |-> segs.items[i].end,
                      text |-> segs.items[i].text,
                      index |-> IF Has(segs.items[i], "index")
                                THEN segs.items[i].index ELSE None,
                      index_sub |-> IF Has(segs.items[i], "index_sub")
                                    THEN segs.items[i].index_sub ELSE None]]])

migrate_transcript(old_data) ==
    LET segs == IF Has(old_data, "segments") THEN old_data.segments
                ELSE [shape |-> "list", items |-> <<>>]
    IN  \* enumerate() of a number
        IF segs.shape = "other" THEN Error("TypeError")
        \* iterating an object yields its keys: seg["start"] on a string
        ELSE IF segs.shape = "dict" /\ segs.items # <<>> THEN Error("TypeError")
        ELSE IF \E i \in 1..Len(segs.items) :
                    ~(Required \subseteq DOMAIN segs.items[i])
        THEN Error("KeyError")
        ELSE IF ~Has(old_data, "source_file") THEN Error("KeyError")
        ELSE Ok([version |-> 2, source_file |-> old_data.source_file,
                 segments |-> [i \in 1..Len(segs.items) |->
                     [id |-> i,
                      start |-> segs.items[i].start,
                      end |-> segs.items[i].end,
                      text |-> segs.items[i].text,
                      index |-> IF Has(segs.items[i], "index")
                                THEN segs.items[i].index ELSE None,
                      index_sub |-> IF Has(segs.items[i], "index_sub")
                                    THEN segs.items[i].index_sub ELSE None]]])

\* TRUE when validate_transcript_v2 raises nothing
validate_transcript_v2(data) ==
    /\ Has(data, "version") /\ data.version = 2
    /\ Has(data, "source_file")
    /\ Has(data, "segments")
    /\ data.segments.shape = "dict"
    /\ \A i \in 1..Len(data.segments.items) :
           Required \subseteq DOMAIN data.segments.items[i]

\* auto_migrate is True at every call site
load_transcript_json(data) ==
    IF ~Has(data, "version") THEN migrate_transcript(data)
    ELSE IF data.version = 2
    THEN IF validate_transcript_v2(data) THEN Ok(data) ELSE Error("ValueError")
    ELSE Error("ValueError")

----------------------------------------------------------------------------
\* Loader harness: one persisted record, loaded once.

MaxRawLen == 2

Without(r, k) == [f \in DOMAIN r \ {k} |-> r[f]]

RawBase == {[start |-> 0, end |-> 5, text |-> <<"a">>],
            [start |-> 3, end |-> 5, text |-> <<"b">>]}

\* segments as they can stand in a record: complete, with a flat index, with
\* an index_sub, or with one required field missing
RawSegs ==
    RawBase
    \cup {r @@ ("index" :> x) : r \in RawBase, x \in {1, 4}}
    \cup {r @@ ("index" :> 4) @@ ("index_sub" :> x) : r \in RawBase, x \in {0, 5}}
    \cup {Without(r, k) : r \in RawBase, k \in Required}

RawLists == UNION {[1..n -> RawSegs] : n \in 0..MaxRawLen}

RawSegments ==
    {[shape |-> "other", items |-> <<>>]}
    \cup [shape : {"list", "dict"}, items : RawLists]

SourceFile == <<"a", ".", "w", "a", "v">>

\* the keys "version", "source_file", "segments", each present or not
RawRecords ==
    LET versions == {<<>>} \cup {("version" :> v) : v \in {1, 2, 3}}
        sources  == {<<>>, ("source_file" :> SourceFile)}
        segs     == {<<>>} \cup {("segments" :> x) : x \in RawSegments}
    IN  {v @@ f @@ x : v \in versions, f \in sources, x \in segs}

InitLoad ==
    /\ transcript = <<>>
    /\ overlay = <<>>
    /\ files = NoFiles
    /\ last = Idle("init")
    /\ passes = 0
    /\ saves = 0
    /\ exhausted = FALSE
    /\ fault = NoFault
    /\ a_in \in RawRecords
    /\ a_out = NoKey

Load ==
    /\ a_out = NoKey
    /\ a_out' = load_transcript_json(a_in)
    /\ UNCHANGED <<transcript, overlay, files, last, passes, saves, exhausted, fault, a_in>>

NextLoad == Load

SpecLoad == InitLoad /\ [][NextLoad]_vars

----------------------------------------------------------------------------
\* Properties of the loader (checked under SpecLoad)

Loaded == a_out # NoKey

Legacy == ~Has(a_in, "version")

\* a legacy record as the claim describes it: a list of complete segments,
\* each with a flat integer index and no index_sub other than 0
LegacyList ==
    /\ Legacy
    /\ Has(a_in, "source_file")
    /\ Has(a_in, "segments")
    /\ a_in.segments.shape = "list"
    /\ \A i \in 1..Len(a_in.segments.items) :
           LET seg == a_in.segments.items[i]
           IN  /\ Required \subseteq DOMAIN seg
               /\ Has(seg, "index")
               /\ Has(seg, "index_sub") => seg.index_sub = 0

\* C17: loading a record without version field yields a version-2 record in
\* which the i-th segment of the legacy list (from 1, in list order) has id
\* i, the same start, end and text, and the key (index, 0) built from its
\* flat index, the index_sub being 0 or absent.
C17_LegacyMigration ==
    (Loaded /\ LegacyList)
    => /\ a_out.ok
       /\ a_out.data.version = 2
       /\ Len(a_out.data.segments) = Len(a_in.segments.items)
       /\ \A i \in 1..Len(a_in.segments.items) :
              LET old == a_in.segments.items[i]
                  new == a_out.data.segments[i]
              IN  /\ new.id = i
                  /\ new.start = old.start /\ new.end = old.end
                  /\ new.text = old.text
                  /\ new.index = old.index
                  /\ new.index_sub \in {0, None}
                  /\ <<new.index, OrZero(new.index_sub)>> = <<old.index, 0>>

\* a legacy list of two different segments has been migrated
C17_Witness ==
    /\ Loaded /\ LegacyList
    /\ Len(a_in.segments.items) = 2
    /\ a_in.segments.items[1] # a_in.segments.items[2]
    /\ a_out.ok
    /\ a_out.data.segments[2].id = 2

\* the record is malformed or of an unsupported version
Malformed ==
    \/ Has(a_in, "version") /\ a_in.version # 2
    \/ ~Has(a_in, "source_file")
    \/ ~Has(a_in, "segments")
    \/ /\ Has(a_in, "segments")
       /\ \/ a_in.segments.shape # (IF Legacy THEN "list" ELSE "dict")
          \/ \E i \in 1..Len(a_in.segments.items) :
                 ~(Required \subseteq DOMAIN a_in.segments.items[i])

\* C18: loading a record with a version other than 2, or a record (legacy or
\* version 2) that misses source_file, segments or a segment's start, end or
\* text, or has segments of the wrong shape, fails with an error and
\* returns no record.
C18_SchemaErrorsTotal ==
    (Loaded /\ Malformed) => ~a_out.ok

----------------------------------------------------------------------------
\* Exhaustion of a gap (checked under SpecAlloc)

\* rule 2 applies and maxSub - n < l + 1
NoRoomRule2 ==
    /\ a_in.after # NoKey
    /\ BeforeOrZero(a_in.before)[1] + 1 = a_in.after[1]
    /\ a_in.after[2] = 0
    /\ max_index_sub_of(a_in.d) - BeforeOrZero(a_in.before)[2] < a_in.l + 1

\* rule 3 applies to valid neighbours and m - n < l + 1
NoRoomRule3 ==
    /\ a_in.after # NoKey
    /\ BeforeOrZero(a_in.before)[1] = a_in.after[1]
    /\ BeforeOrZero(a_in.before)[2] < a_in.after[2]
    /\ a_in.after[2] - BeforeOrZero(a_in.before)[2] < a_in.l + 1

\* C19: when no room remains between before and after (rule 2 with
\* maxSub - n < l + 1, or rule 3 with m - n < l + 1), determine_index
\* returns a key equal to before: the exhaustion shows as a repeated key and
\* never as a key outside the gap.
C19_ExhaustionReturnsBefore ==
    (Called /\ (NoRoomRule2 \/ NoRoomRule3))
    => /\ a_out = BeforeOrZero(a_in.before)
       /\ ~KeyLess(a_out, BeforeOrZero(a_in.before))
       /\ KeyLess(a_out, a_in.after)

\* an exhausted gap between two adjacent sub-keys of one primary index, and
\* one at the top of the sub-key range
C19_Witness ==
    /\ Called
    /\ \/ NoRoomRule3 /\ a_in.before # NoKey /\ a_out = a_in.before
       \/ NoRoomRule2 /\ a_in.before # NoKey /\ a_out = a_in.before

----------------------------------------------------------------------------
\* Insertion harness: one call of assign_indices on a working set that holds
\* two keyed neighbours (N, n) and (N + 1, 0) and k unkeyed segments that
\* start between them.

MaxInserted == 3

\* the keyed neighbours: ids 1 and 2, at the two ends
GapNeighbour(id, N, n) ==
    LET start == IF id = 1 THEN 0 ELSE 10 * (MaxInserted + 1)
    IN  Seg(id, <<start, start + 5, <<"a">>>>, N, n)

\* the j-th new segment: id 2 + j, no key
GapNew(j) == Seg(2 + j, <<10 * j, 10 * j + 5, <<"b">>>>, None, None)

GapSegments(N, n, k) ==
    <<GapNeighbour(1, N, n), GapNeighbour(2, N + 1, None)>>
    \o [j \in 1..k |-> GapNew(j)]

\* the neighbours are in the previous record, and the working set carries
\* them with their keys
GapInputs ==
    {[segments |-> GapSegments(N, n, k),
      existing_segments |-> SubSeq(GapSegments(N, n, k), 1, 2),
      N |-> N, n |-> n, k |-> k] :
        N \in 1..(MaxIndex - 1), n \in {None, 1, 250, 500, 998},
        k \in 1..MaxInserted}

InitAssign ==
    /\ transcript = <<>>
    /\ overlay = <<>>
    /\ files = NoFiles
    /\ last = Idle("init")
    /\ passes = 0
    /\ saves = 0
    /\ exhausted = FALSE
    /\ fault = NoFault
    /\ a_in \in GapInputs
    /\ a_out = NoKey

Assign ==
    /\ a_out = NoKey
    /\ a_out' = assign_indices(a_in.segments, a_in.existing_segments,
                               index_sub_digits)
    /\ UNCHANGED <<transcript, overlay, files, last, passes, saves, exhausted, fault, a_in>>

NextAssign == Assign

SpecAssign == InitAssign /\ [][NextAssign]_vars

AssignCalled == a_out # NoKey

\* the first of the inserted segments, as the pass keyed it
FirstInserted == Get(a_out, 3)

\* n + floor((maxSub - n) / (k + 1))
EvenSub(n, k) ==
    OrZero(n) + ((max_index_sub_of(index_sub_digits) - OrZero(n)) \div (k + 1))

\* C20: when one pass inserts k >= 2 unkeyed segments into the same gap
\* between two keyed neighbours with adjacent primary indices, the allocator
\* is invoked with concurrentInsertions = k: the first inserted segment gets
\* sub-key n + floor((maxSub - n) / (k + 1)).
C20_SpreadEvenly ==
    (AssignCalled /\ a_in.k >= 2)
    => KeyOf(FirstInserted) = <<a_in.N, EvenSub(a_in.n, a_in.k)>>

\* a single insertion gets the sub-key for l = 1
C20_SingleInsertion ==
    (AssignCalled /\ a_in.k = 1)
    => KeyOf(FirstInserted) = <<a_in.N, EvenSub(a_in.n, 1)>>

----------------------------------------------------------------------------
\* The range of the keys (checked under Spec)

InRange(seg) ==
    /\ seg.index # None => seg.index \in Nat
    /\ seg.index_sub # None =>
           /\ seg.index_sub >= 0
           /\ seg.index_sub <= max_index_sub_of(index_sub_digits)

\* C21: with a fixed digit width D, after any sequence of passes every
\* index_sub of the canonical record lies in [0, 10^D - 1] and every index
\* is a non-negative integer.
C21_SubKeyBound ==
    \A i \in 1..Len(transcript) : InRange(transcript[i])

\* a canonical record after two passes that holds a sub-key given by the
\* allocator
C21_Witness ==
    /\ IsPass /\ passes = 2
    /\ \E i \in 1..Len(transcript) :
           /\ transcript[i].index_sub # None
           /\ transcript[i].index_sub > 0

----------------------------------------------------------------------------
\* The three-rule reference allocator (checked under SpecAlloc)

\* the allocator as the specification states it, D being the digit width
ReferenceAllocator(before, after, l, D) ==
    LET maxSub == Pow10(D) - 1
        N == IF before = NoKey THEN 0 ELSE before[1]
        n == IF before = NoKey THEN 0 ELSE before[2]
        FloorDiv(a, b) == CHOOSE q \in -maxSub..maxSub : q * b <= a /\ a < (q + 1) * b
    IN  IF after = NoKey \/ N + 1 < after[1] \/ (N + 1 = after[1] /\ after[2] # 0)
        THEN <<N + 1, 0>>
        ELSE IF N + 1 = after[1] /\ after[2] = 0
        THEN <<N, Min(n + FloorDiv(maxSub - n, l + 1), maxSub)>>
        ELSE <<N, Min(n + FloorDiv(after[2] - n, l + 1), maxSub)>>

\* C22: for every input determine_index returns what the three-rule
\* reference allocator returns; in particular (5, 749) for before (5,500),
\* after (6,0), l = 1, D = 3, and (1, 0) when both neighbours are absent.
C22_EqualsReference ==
    Called
    => /\ a_out = ReferenceAllocator(a_in.before, a_in.after, a_in.l, a_in.d)
       /\ (a_in.before = NoKey /\ a_in.after = NoKey) => a_out = <<1, 0>>
       /\ a_in = [before |-> <<5, 500>>, after |-> <<6, 0>>, l |-> 1, d |-> 3]
          => a_out = <<5, 749>>

\* the call of the example has returned (5, 749)
C22_Witness ==
    /\ Called
    /\ a_in = [before |-> <<5, 500>>, after |-> <<6, 0>>, l |-> 1, d |-> 3]
    /\ a_out = <<5, 749>>

----------------------------------------------------------------------------
\* The session token (checked under SpecSession)

\* C23: /api/save and /api/regenerate answer a request whose session_id
\* differs from the server's with 409 SESSION_MISMATCH, and in that case
\* write no file, perform no export, rename or delete, and leave the
\* previous state unchanged.
C23_MismatchWritesNothing ==
    [][last'.kind = "SESSION_MISMATCH"
       => UNCHANGED <<transcript, overlay, files, passes, saves>>]_vars

\* a request with a stale session has been refused after a pass wrote
\* files and a record
C23_Witness ==
    /\ last.kind = "SESSION_MISMATCH"
    /\ transcript # <<>>
    /\ DOMAIN files # {}

----------------------------------------------------------------------------
\* Retry after an aborted pass (checked under SpecFault)

\* the pass of the last handler, run on a directory fs: after a failed pass
\* the record and the overlay are the ones it started from, and no fault is
\* armed any more
RunAgain(fs) ==
    IF last.entry = "export_diff"
    THEN export_diff(fs, last.working, last.previous, last.edit, last.force)
    ELSE export_diff_v2(fs, last.working, last.previous, last.edit, last.force)

\* a non-forced pass that stopped after some file operation had run
AbortedMidway == Failed /\ ~last.force /\ last.ops # <<>>

\* C24: if a non-forced pass aborts at a materializer error after some of
\* its deletes, renames or exports have run, re-running it with the same
\* previous record and working set, without error, ends with the same set
\* of artifact files and the same canonical record as a single pass that
\* never failed.
C24_RetryConverges ==
    AbortedMidway
    => /\ fault = NoFault
       /\ transcript = last.previous
       /\ ~RunAgain(files).raised
       /\ DOMAIN RunAgain(files).files = DOMAIN RunAgain(last.files0).files
       /\ RunAgain(files).segments = RunAgain(last.files0).segments

\* the same with the content of the files: each holds the range it would
\* hold after the single pass
C24_RetrySameContent ==
    AbortedMidway => RunAgain(files).files = RunAgain(last.files0).files

\* a pass that renamed one entry and then stopped at the export of another
C24_Witness ==
    /\ AbortedMidway
    /\ \E i \in 1..Len(last.ops) : last.ops[i].op = "rename"
    /\ files # last.files0
    /\ DOMAIN RunAgain(files).files = DOMAIN RunAgain(last.files0).files

----------------------------------------------------------------------------
\* Artifacts and the record (checked under Spec)

\* the file under the segment's computed name exists and was written for it
OwnsFile(fs, seg) ==
    /\ Exists(fs, generate_filename(seg))
    /\ fs[generate_filename(seg)].id = seg.id

\* before the pass every keyed segment of previous had its own artifact
PreviousMaterialized ==
    \A p \in Previous : p.index # None => OwnsFile(last.files0, p)

\* C25: after a non-forced pass that raised no error, started in a state
\* where every keyed segment of previous had its artifact on disk, every
\* segment of the new canonical record has a file on disk under its computed
\* name, and that file was exported for or renamed from that same segment:
\* no step 3 operation of one entry removes or overwrites the file of
\* another.
C25_EveryArtifactIsItsOwn ==
    (NonForced /\ PreviousMaterialized)
    => \A i \in 1..Len(last.segments) : OwnsFile(files, last.segments[i])

\* the names the keyed segments of a record give their artifacts
NamesOf(segments) ==
    {generate_filename(segments[i]) :
        i \in {j \in 1..Len(segments) : segments[j].index # None}}

\* C26: after a pass (forced or not, through either entry point) that raised
\* no error, started in a state where the artifact files on disk were
\* exactly those named by previous, the files on disk are exactly those
\* named by the new canonical record: no file of a removed, renamed or
\* re-keyed segment is left behind.
C26_NoOrphans ==
    (IsPass /\ DOMAIN last.files0 = NamesOf(last.previous))
    => DOMAIN files = NamesOf(last.segments)

----------------------------------------------------------------------------
\* Drift harness: one segment, edited in time and regenerated (non-forced,
\* the client sending the key it was served) several times in a row.

MaxDriftPasses == 3
MaxStart == 3

\* the list the client sends: the segment with the times it was edited to
DriftList(start, end) ==
    IF transcript = <<>>
    THEN <<Seg(1, <<start, end, <<"a">>>>, None, None)>>
    ELSE <<[transcript[1] EXCEPT !.start = start, !.end = end]>>

InitDrift ==
    /\ transcript = <<>>
    /\ overlay = <<>>
    /\ files = NoFiles
    /\ last = Idle("init")
    /\ passes = 0
    /\ saves = 0
    /\ exhausted = FALSE
    /\ fault = NoFault
    /\ a_in = NoKey
    /\ a_out = NoKey

EditAndRegenerate ==
    /\ passes < MaxDriftPasses
    /\ \E start \in 0..MaxStart, end \in {10, 11} :
           Regenerate(DriftList(start, end), FALSE)

NextDrift == EditAndRegenerate

SpecDrift == InitDrift /\ [][NextDrift]_vars

\* C27: after any sequence of non-forced passes, for every segment of the
\* canonical record the recorded start and end differ by at most the
\* tolerance from the start and end its artifact was last exported with:
\* edits no larger than the tolerance, each followed by a pass that skips
\* the segment, cannot move the recorded times further than that.
C27_TimesMatchArtifact ==
    \A i \in 1..Len(transcript) :
        LET seg == transcript[i]
        IN  (seg.index # None /\ Exists(files, generate_filename(seg)))
            => /\ Abs(seg.start - files[generate_filename(seg)].start) <= Tolerance
               /\ Abs(seg.end - files[generate_filename(seg)].end) <= Tolerance

----------------------------------------------------------------------------
\* The two reconciliation implementations on the same inputs

\* what a pass did and returned
Outcome(acc) ==
    [files |-> acc.files, ops |-> acc.ops, exported |-> acc.exported,
     renamed |-> acc.renamed, deleted |-> acc.deleted, skipped |-> acc.skipped,
     segments |-> acc.segments]

\* C28: for the same merged segments, previous segments, overlay, digit
\* widths, force flag and directory state, export_diff_v2 and
\* AudioSplitter.export_diff perform the same file deletes, renames and
\* exports and return the same exported, renamed, deleted, skipped and
\* segments result.
C28_ImplementationsAgree ==
    IsPass
    => Outcome(export_diff(last.files0, last.working, last.previous,
                           last.edit, last.force))
       = Outcome(export_diff_v2(last.files0, last.working, last.previous,
                                last.edit, last.force))

----------------------------------------------------------------------------
\* Running split.py again with the overlay of the pass just made

\* a non-forced split.py pass over a non-empty full-snapshot overlay
SnapshotPass ==
    /\ IsPass /\ last.entry = "export_diff_v2" /\ ~last.force
    /\ last.edit # <<>>

\* the same overlay against the record the pass produced
SecondPass ==
    export_diff_v2(files, merge_segments(transcript, last.edit), transcript,
                   last.edit, FALSE)

SameKeys(segments, record) ==
    \A i \in 1..Len(segments) :
        /\ HasId(record, segments[i].id)
        /\ Get(record, segments[i].id).index = segments[i].index
        /\ Get(record, segments[i].id).index_sub = segments[i].index_sub

\* C29: if a non-forced pass is run with a non-empty full-snapshot overlay
\* and is then run again with the same overlay against the canonical record
\* the first pass produced, the second pass assigns every segment the key it
\* already has and performs no export, no rename and no delete.
C29_RerunIsNoOp ==
    SnapshotPass
    => /\ SameKeys(SecondPass.segments, transcript)
       /\ SecondPass.exported = <<>>
       /\ SecondPass.renamed = <<>>
       /\ SecondPass.deleted = <<>>

\* the part of C29 about keys alone
C29_RerunKeepsKeys == SnapshotPass => SameKeys(SecondPass.segments, transcript)

----------------------------------------------------------------------------
\* src/src/splitter.py: generate_full_edit_segments (export_edit.py)

\* the overlay written: the transcript's segments reduced to start, end and
\* text, each updated from the existing overlay's entry of the same id, then
\* the existing overlay's entries of other ids; existing_segments is <<>>
\* when edit_segments.json does not exist or holds no segments
generate_full_edit_segments(segments, existing_segments) ==
    [i \in 1..Len(segments) |->
        IF HasId(existing_segments, segments[i].id)
        THEN [FullSnapshot(segments)[i] EXCEPT
                 !.start = Get(existing_segments, segments[i].id).start,
                 !.end = Get(existing_segments, segments[i].id).end,
                 !.text = Get(existing_segments, segments[i].id).text]
        ELSE FullSnapshot(segments)[i]]
    \o SelectSeq(existing_segments, LAMBDA changes : ~HasId(segments, changes.id))

\* ids with their start, end and text
Essential(segments) ==
    {[id |-> segments[i].id, start |-> segments[i].start,
      end |-> segments[i].end, text |-> segments[i].text] :
        i \in 1..Len(segments)}

\* C30: after generate_full_edit_segments rewrites the overlay,
\* merge_segments(base, overlay) has the same ids with the same start, end
\* and text as before the rewrite; a segment absent from an existing
\* non-empty overlay is still absent from the working set afterwards.
C30_RewriteKeepsWorkingSet ==
    transcript # <<>>
    => Essential(merge_segments(transcript,
                     generate_full_edit_segments(transcript, overlay)))
       = Essential(merge_segments(transcript, overlay))

\* the part of C30 that holds: without an overlay, or with one that names
\* every segment of the record, the rewrite keeps the working set
C30_RewriteKeepsCoveredSet ==
    (transcript # <<>> /\ (overlay = <<>> \/ Ids(transcript) \subseteq Ids(overlay)))
    => Essential(merge_segments(transcript,
                     generate_full_edit_segments(transcript, overlay)))
       = Essential(merge_segments(transcript, overlay))

====
